---- MODULE Spec2Model ----
(***************************************************************************)
(* A model of the endless zero-downtime restart library                    *)
(* (src/unnamed/part_000): the server registry, the per-instance           *)
(* lifecycle (ListenAndServe / Serve), the signal loop with its hooks,     *)
(* shutdown and the hammer, the fork coordinator and the restart child.    *)
(*                                                                         *)
(* Every goroutine of the code is a program counter; every action is one   *)
(* step between two points where another goroutine can interleave (a lock  *)
(* section, one atomic WaitGroup operation, one system call).              *)
(***************************************************************************)
EXTENDS Integers, Sequences, FiniteSets, TLC

(***************************************************************************)
(* Bounds of the model.                                                    *)
(***************************************************************************)
\* connections one instance accepts
MaxConns == 2
\* signals the environment sends to one process (besides the child's SIGTERMs)
MaxSignals == 3
\* RegisterSignalHook calls on one instance
MaxHooks == 2
\* HUPs sent to the parent during an upgrade
MaxHups == 1

(***************************************************************************)
(* Program constants.                                                      *)
(***************************************************************************)
PRE_SIGNAL == 0
POST_SIGNAL == 1
STATE_INIT == 2
STATE_RUNNING == 3
STATE_SHUTTING_DOWN == 4
STATE_TERMINATE == 5
\* buffer size of srv.sigChan
SigChanSize == 100
\* the child sends SIGTERM to its parent at most this many times
KillTries == 3
\* the first inherited descriptor
FirstFd == 3

hookableSignals == {"HUP", "USR1", "USR2", "INT", "TERM", "TSTP"}

\* The two processes of one binary upgrade, and the server instances
\* (in order of construction) a process can hold.
Procs == {"parent", "child"}
Slots == {1, 2}
Nil == "nil"
\* a nil *os.File, and a nil srv.EndlessListener
NoFile == <<"nil">>
NoListener == [set |-> FALSE, fd |-> 0, sock |-> NoFile, stopped |-> FALSE]

\* Addresses are strings: sequences of characters. "," never occurs in a
\* TCP listen address; it is the separator of ENDLESS_SOCKET_ORDER.
Comma == ","
HttpAddr == <<":", "h", "t", "t", "p">>
HttpsAddr == <<":", "h", "t", "t", "p", "s">>

\* The addresses a program registers: the empty address (the default
\* port) and a host:port address.
Addrs == {<<>>, <<"a", "b">>}

VARIABLES
    \* ---- process wide ----
    procState,            \* "none" (not spawned) | "up" | "exited" | "crashed"
    environ,              \* [cont: ENDLESS_CONTINUE set, order: ENDLESS_SOCKET_ORDER]
    inherited,            \* cmd.ExtraFiles as seen by the process: descriptors 3, 4, ...
    program,              \* the addresses main() constructs servers for
    DefaultHammerTime,
    runningServersOrder,  \* also the key set of runningServers
    socketPtrOffsetMap,
    runningServersForked,
    runningServerReg,     \* 0: free, i: write-locked by fork() of instance i
    spawned,              \* number of cmd.Start() calls so far
    nsig,                 \* signals the environment has sent to the process
    logOn,                \* whether the injected loggers and the hooks record
    \* ---- per server instance ----
    isChild,              \* srv.isChild
    tls,                  \* started with ListenAndServeTLS
    state,                \* srv.state
    lasPC,                \* the goroutine running ListenAndServe / Serve
    ppid,                 \* ppid read by the child's SIGTERM loop, and its cnt
    EndlessListener,      \* [set, fd, sock, stopped]; fd 0: freshly bound
    wg,                   \* srv.wg: [counter, waiters]
    sigChan,              \* srv.sigChan
    sigPC,                \* the goroutine running handleSignals
    hamPC,                \* the hammerTime calls: [delayed, usr2]
    conns,                \* accepted connections
    SignalHooks,          \* srv.SignalHooks
    log,                  \* what hooks and loggers recorded
    hist                  \* what has happened to the instance so far

procVars == <<procState, environ, inherited, program, DefaultHammerTime, nsig, logOn>>
regVars == <<runningServersOrder, socketPtrOffsetMap, runningServersForked,
             runningServerReg, spawned>>
srvVars == <<isChild, tls, state, lasPC, ppid, EndlessListener, wg, sigChan,
             sigPC, hamPC, conns, SignalHooks, log, hist>>
vars == <<procVars, regVars, srvVars>>

(***************************************************************************)
(* Strings                                                                 *)
(***************************************************************************)
\* strings.Join(ss, ",")
RECURSIVE Join(_)
Join(ss) ==
    IF Len(ss) = 0 THEN <<>>
    ELSE IF Len(ss) = 1 THEN ss[1]
    ELSE ss[1] \o <<Comma>> \o Join(Tail(ss))

\* strings.FieldsFunc(s, isComma): like Split, without the empty substrings
RECURSIVE Fields(_)
Fields(s) ==
    IF \A k \in 1..Len(s) : s[k] # Comma THEN (IF s = <<>> THEN <<>> ELSE <<s>>)
    ELSE LET k == CHOOSE k \in 1..Len(s) :
                     s[k] = Comma /\ \A j \in 1..(k - 1) : s[j] # Comma
         IN (IF k = 1 THEN <<>> ELSE <<SubSeq(s, 1, k - 1)>>)
                \o Fields(SubSeq(s, k + 1, Len(s)))

\* strings.Split(s, ","): the substrings between the separators
RECURSIVE Split(_)
Split(s) ==
    IF \A k \in 1..Len(s) : s[k] # Comma THEN <<s>>
    ELSE LET k == CHOOSE k \in 1..Len(s) :
                     s[k] = Comma /\ \A j \in 1..(k - 1) : s[j] # Comma
         IN <<SubSeq(s, 1, k - 1)>> \o Split(SubSeq(s, k + 1, Len(s)))

\* m[a] of a Go map: the zero value when the key is absent
Lookup(m, a) == IF a \in DOMAIN m THEN m[a] ELSE 0

\* m[a] = v of a Go map
MapSet(m, a, v) == [x \in DOMAIN m \cup {a} |-> IF x = a THEN v ELSE m[x]]

\* the map after "for i, addr := range parts { m[addr] = uint(i) }"
RECURSIVE SetOffsets(_, _, _)
SetOffsets(m, parts, i) ==
    IF i > Len(parts) THEN m
    ELSE SetOffsets(MapSet(m, parts[i], i - 1), parts, i + 1)

(***************************************************************************)
(* Registry                                                                *)
(***************************************************************************)
\* the instances registered in process p (the values of runningServers)
runningServers(p) == 1..Len(runningServersOrder[p])

\* srv.Server.Addr
Addr(p, i) == runningServersOrder[p][i]

Registered(p, a) == \E i \in runningServers(p) : Addr(p, i) = a

\* syscall.Getppid() in the child
Getppid == IF procState["parent"] = "up" THEN "parent" ELSE "init"

Up(p) == procState[p] = "up"

(***************************************************************************)
(* sync.WaitGroup                                                          *)
(***************************************************************************)
\* wg.Add(delta) / wg.Done(): the counter is changed first and stays changed
\* when the call panics ("sync: negative WaitGroup counter"); the call that
\* brings the counter to 0 resets the waiters and wakes them.
WgAdd(w, delta) ==
    LET v == w.counter + delta
    IN IF v < 0 THEN [wg |-> [w EXCEPT !.counter = v], panic |-> TRUE, wake |-> FALSE]
       ELSE IF v > 0 \/ w.waiters = 0
            THEN [wg |-> [w EXCEPT !.counter = v], panic |-> FALSE, wake |-> FALSE]
            ELSE [wg |-> [counter |-> 0, waiters |-> 0], panic |-> FALSE, wake |-> TRUE]

\* the ListenAndServe goroutine after a WaitGroup operation of another
\* goroutine: a blocked wg.Wait() is woken by the operation that reaches 0
WakeServe(pc, r) == IF r.wake /\ pc = "blocked" THEN "woken" ELSE pc

(***************************************************************************)
(* Initial states                                                          *)
(***************************************************************************)
NoHooks == [ph \in {PRE_SIGNAL, POST_SIGNAL} |-> [s \in hookableSignals |-> <<>>]]
\* what the last RegisterSignalHook call was given and returned
NoCall == [flag |-> -1, sig |-> Nil, err |-> Nil]
NoHist == [usr2 |-> FALSE, hammered |-> FALSE, regs |-> 0, last |-> NoCall]
PerSrv(v) == [p \in Procs |-> [i \in Slots |-> v]]
FreshEnv == [cont |-> FALSE, order |-> <<>>]

\* a process before any server is constructed
InitSrvVars ==
    /\ isChild = PerSrv(FALSE)
    /\ tls = PerSrv(FALSE)
    /\ state = PerSrv(STATE_INIT)
    /\ lasPC = PerSrv("none")
    /\ ppid = PerSrv([pid |-> Nil, cnt |-> 0])
    /\ EndlessListener = PerSrv(NoListener)
    /\ wg = PerSrv([counter |-> 0, waiters |-> 0])
    /\ sigChan = PerSrv(<<>>)
    /\ sigPC = PerSrv([phase |-> "off", sig |-> Nil, idx |-> 0])
    /\ hamPC = PerSrv([delayed |-> "off", usr2 |-> "off"])
    /\ conns = PerSrv([c \in 1..MaxConns |-> "none"])
    /\ SignalHooks = PerSrv(NoHooks)
    /\ log = PerSrv(<<>>)
    /\ hist = PerSrv(NoHist)

\* init(): the registry of a first-generation parent
InitProcVars ==
    /\ procState = [p \in Procs |-> IF p = "parent" THEN "up" ELSE "none"]
    /\ environ = [p \in Procs |-> FreshEnv]
    /\ inherited = [p \in Procs |-> <<>>]
    /\ runningServersOrder = [p \in Procs |-> <<>>]
    /\ socketPtrOffsetMap = [p \in Procs |-> <<>>]
    /\ runningServersForked = [p \in Procs |-> FALSE]
    /\ runningServerReg = [p \in Procs |-> 0]
    /\ spawned = [p \in Procs |-> 0]
    /\ nsig = [p \in Procs |-> 0]

(***************************************************************************)
(* NewServer                                                               *)
(***************************************************************************)
\* socketPtrOffsetMap after NewServer(a) in process p
NewOffsets(p, a) ==
    LET socketOrder == environ[p].order
    IN IF Len(socketOrder) > 0
       THEN SetOffsets(socketPtrOffsetMap[p], Split(socketOrder), 1)
       ELSE MapSet(socketPtrOffsetMap[p], a, Len(runningServersOrder[p]))

\* NewServer(a) in process p, leaving the new instance's goroutines at pc
\* and phase
Construct(p, a, pc, phase) ==
    LET i == Len(runningServersOrder[p]) + 1
    IN /\ Up(p)
       /\ runningServerReg[p] = 0
       /\ a \in program
       /\ ~Registered(p, a)
       /\ i \in Slots
       /\ socketPtrOffsetMap' = [socketPtrOffsetMap EXCEPT ![p] = NewOffsets(p, a)]
       /\ runningServersOrder' = [runningServersOrder EXCEPT ![p] = Append(@, a)]
       /\ isChild' = [isChild EXCEPT ![p][i] = environ[p].cont]
       /\ state' = [state EXCEPT ![p][i] = STATE_INIT]
       /\ lasPC' = [lasPC EXCEPT ![p][i] = pc]
       /\ sigPC' = [sigPC EXCEPT ![p][i].phase = phase]
       /\ UNCHANGED <<procVars, runningServersForked, runningServerReg, spawned>>
       /\ UNCHANGED <<tls, ppid, EndlessListener, wg, sigChan, hamPC, conns,
                      SignalHooks, log, hist>>

\* srv := NewServer(a, handler), kept by the caller
NewServer(p, a) == Construct(p, a, "new", "off")

\* the package's ListenAndServe(a, handler): NewServer, then the method
\* ListenAndServe up to "go srv.handleSignals()"
ListenAndServe(p, a) == Construct(p, a, "getl", "recv")

(***************************************************************************)
(* ListenAndServe                                                          *)
(***************************************************************************)
\* the address ListenAndServe / ListenAndServeTLS listens on
ListenAddr(p, i) ==
    IF Addr(p, i) = <<>> THEN (IF tls[p][i] THEN HttpsAddr ELSE HttpAddr)
    ELSE Addr(p, i)

\* "go srv.handleSignals()": the signal loop starts, subscribes its channel
\* (signal.Notify) and waits for a signal
StartListenAndServe(p, i) ==
    /\ Up(p)
    /\ lasPC[p][i] = "new"
    /\ tls' = [tls EXCEPT ![p][i] = FALSE]
    /\ lasPC' = [lasPC EXCEPT ![p][i] = "getl"]
    /\ sigPC' = [sigPC EXCEPT ![p][i].phase = "recv"]
    /\ UNCHANGED <<procVars, regVars>>
    /\ UNCHANGED <<isChild, state, ppid, EndlessListener, wg, sigChan, hamPC, conns,
                   SignalHooks, log, hist>>

\* the descriptor offset getListener uses in a child
PtrOffset(p, laddr) ==
    IF DOMAIN socketPtrOffsetMap[p] # {} THEN Lookup(socketPtrOffsetMap[p], laddr)
    ELSE 0

\* a getListener that binds the address itself when the descriptor is missing
FileOrBind(p, k) ==
    IF k + 1 \in DOMAIN inherited[p] /\ inherited[p][k + 1] # NoFile
    THEN inherited[p][k + 1]
    ELSE <<"b", "o", "u", "n", "d">>

\* the socket behind descriptor FirstFd + k of process p, if there is one
FileAt(p, k) == IF k + 1 \in DOMAIN inherited[p] THEN inherited[p][k + 1] ELSE NoFile

\* where the goroutine goes once the listener is wrapped: in a child the
\* SIGTERM to the parent (a loop in ListenAndServe, one Kill in
\* ListenAndServeTLS), then srv.BeforeBegin (ListenAndServe) or the direct
\* logPrintln (ListenAndServeTLS)
AfterListen(p, i) ==
    IF tls[p][i] THEN (IF isChild[p][i] THEN "killtls" ELSE "println")
    ELSE (IF isChild[p][i] THEN "getppid" ELSE "before")

\* getListener in a parent: net.Listen succeeds
GetListenerFresh(p, i) ==
    /\ Up(p)
    /\ lasPC[p][i] = "getl"
    /\ ~isChild[p][i]
    /\ EndlessListener' = [EndlessListener EXCEPT ![p][i] =
            [set |-> TRUE, fd |-> 0, sock |-> ListenAddr(p, i), stopped |-> FALSE]]
    /\ lasPC' = [lasPC EXCEPT ![p][i] = AfterListen(p, i)]
    /\ UNCHANGED <<procVars, regVars>>
    /\ UNCHANGED <<isChild, tls, state, ppid, wg, sigChan, sigPC, hamPC, conns,
                   SignalHooks, log, hist>>

\* getListener in a parent: net.Listen fails, ListenAndServe returns the error
GetListenerFreshFail(p, i) ==
    /\ Up(p)
    /\ lasPC[p][i] = "getl"
    /\ ~isChild[p][i]
    /\ lasPC' = [lasPC EXCEPT ![p][i] = "failed"]
    /\ UNCHANGED <<procVars, regVars>>
    /\ UNCHANGED <<isChild, tls, state, ppid, EndlessListener, wg, sigChan, sigPC,
                   hamPC, conns, SignalHooks, log, hist>>

\* getListener in a child: net.FileListener on descriptor 3 + ptrOffset, under
\* the registry's read lock
GetListenerInherited(p, i) ==
    LET k == PtrOffset(p, ListenAddr(p, i))
    IN /\ Up(p)
       /\ lasPC[p][i] = "getl"
       /\ isChild[p][i]
       /\ runningServerReg[p] = 0
       /\ IF FileAt(p, k) # NoFile
          THEN /\ EndlessListener' = [EndlessListener EXCEPT ![p][i] =
                      [set |-> TRUE, fd |-> FirstFd + k, sock |-> FileAt(p, k),
                       stopped |-> FALSE]]
               /\ lasPC' = [lasPC EXCEPT ![p][i] = AfterListen(p, i)]
          ELSE /\ lasPC' = [lasPC EXCEPT ![p][i] = "failed"]
               /\ UNCHANGED EndlessListener
       /\ UNCHANGED <<procVars, regVars>>
       /\ UNCHANGED <<isChild, tls, state, ppid, wg, sigChan, sigPC, hamPC, conns,
                      SignalHooks, log, hist>>

\* the signal loops of process p that a signal reaches
Notified(p, i) == sigPC[p][i].phase # "off"

\* os/signal delivers sig to every subscribed channel of process p that has
\* room; nothing happens in a process that is gone
Deliver(p, sig) ==
    [q \in Procs |-> [i \in Slots |->
        IF q = p /\ Up(p) /\ Notified(p, i) /\ Len(sigChan[p][i]) < SigChanSize
        THEN Append(sigChan[p][i], sig)
        ELSE sigChan[q][i]]]

\* ppid := syscall.Getppid()
ReadPpid(p, i) ==
    /\ Up(p)
    /\ lasPC[p][i] = "getppid"
    /\ ppid' = [ppid EXCEPT ![p][i] = [pid |-> Getppid, cnt |-> 0]]
    /\ lasPC' = [lasPC EXCEPT ![p][i] = "kill"]
    /\ UNCHANGED <<procVars, regVars>>
    /\ UNCHANGED <<isChild, tls, state, EndlessListener, wg, sigChan, sigPC, hamPC,
                   conns, SignalHooks, log, hist>>

\* one round of the loop: syscall.Kill(ppid, SIGTERM), then the sleep
KillParent(p, i) ==
    /\ Up(p)
    /\ lasPC[p][i] = "kill"
    /\ ppid[p][i].cnt < KillTries
    /\ ppid[p][i].pid # "init"
    /\ sigChan' = Deliver(ppid[p][i].pid, "TERM")
    /\ ppid' = [ppid EXCEPT ![p][i].cnt = @ + 1]
    /\ UNCHANGED <<procVars, regVars>>
    /\ UNCHANGED <<isChild, tls, state, lasPC, EndlessListener, wg, sigPC, hamPC,
                   conns, SignalHooks, log, hist>>

\* the loop ends: three rounds done, or the parent is process 1
KillDone(p, i) ==
    /\ Up(p)
    /\ lasPC[p][i] = "kill"
    /\ (ppid[p][i].cnt >= KillTries \/ ppid[p][i].pid = "init")
    /\ lasPC' = [lasPC EXCEPT ![p][i] = "before"]
    /\ UNCHANGED <<procVars, regVars>>
    /\ UNCHANGED <<isChild, tls, state, ppid, EndlessListener, wg, sigChan, sigPC,
                   hamPC, conns, SignalHooks, log, hist>>

\* the entries of an instance's record: a log line of the library, or a hook
\* f of (ppFlag, sig) that ran
Ev(kind, sig) == [kind |-> kind, flag |-> -1, sig |-> sig, f |-> 0]
HookEv(ppFlag, sig, f) == [kind |-> "hook", flag |-> ppFlag, sig |-> sig, f |-> f]

\* what a logger or a hook records, when recording is on
Record(p, i, e) == IF logOn THEN [log EXCEPT ![p][i] = Append(@, e)] ELSE log

\* srv.BeforeBegin(srv.Addr)
BeforeBegin(p, i) ==
    /\ Up(p)
    /\ lasPC[p][i] = "before"
    /\ lasPC' = [lasPC EXCEPT ![p][i] = "serve"]
    /\ log' = Record(p, i, Ev("begin", Nil))
    /\ UNCHANGED <<procVars, regVars>>
    /\ UNCHANGED <<isChild, tls, state, ppid, EndlessListener, wg, sigChan, sigPC,
                   hamPC, conns, SignalHooks, hist>>

(***************************************************************************)
(* Serve                                                                   *)
(***************************************************************************)
\* srv.setState(STATE_RUNNING)
ServeSetRunning(p, i) ==
    /\ Up(p)
    /\ lasPC[p][i] = "serve"
    /\ state' = [state EXCEPT ![p][i] = STATE_RUNNING]
    /\ lasPC' = [lasPC EXCEPT ![p][i] = "accepting"]
    /\ UNCHANGED <<procVars, regVars>>
    /\ UNCHANGED <<isChild, tls, ppid, EndlessListener, wg, sigChan, sigPC, hamPC,
                   conns, SignalHooks, log, hist>>

\* the connection Accept hands out next
NextConn(p, i) == CHOOSE c \in 1..MaxConns :
    conns[p][i][c] = "none" /\ \A d \in 1..(c - 1) : conns[p][i][d] # "none"

\* endlessListener.Accept returns a connection: wg.Add(1) before it returns
Accept(p, i) ==
    /\ Up(p)
    /\ lasPC[p][i] = "accepting"
    /\ ~EndlessListener[p][i].stopped
    /\ \E c \in 1..MaxConns : conns[p][i][c] = "none"
    /\ conns' = [conns EXCEPT ![p][i][NextConn(p, i)] = "open"]
    /\ wg' = [wg EXCEPT ![p][i] = WgAdd(@, 1).wg]
    /\ UNCHANGED <<procVars, regVars>>
    /\ UNCHANGED <<isChild, tls, state, lasPC, ppid, EndlessListener, sigChan, sigPC,
                   hamPC, SignalHooks, log, hist>>

\* Accept fails on the closed listener: Server.Serve returns (its deferred
\* l.Close() finds the listener stopped)
ServeAcceptError(p, i) ==
    /\ Up(p)
    /\ lasPC[p][i] = "accepting"
    /\ EndlessListener[p][i].stopped
    /\ lasPC' = [lasPC EXCEPT ![p][i] = "wait"]
    /\ UNCHANGED <<procVars, regVars>>
    /\ UNCHANGED <<isChild, tls, state, ppid, EndlessListener, wg, sigChan, sigPC,
                   hamPC, conns, SignalHooks, log, hist>>

\* srv.wg.Wait(): returns at once when the counter is 0, else registers as
\* a waiter and blocks
WaitEnter(p, i) ==
    /\ Up(p)
    /\ lasPC[p][i] = "wait"
    /\ IF wg[p][i].counter = 0
       THEN /\ lasPC' = [lasPC EXCEPT ![p][i] = "setterm"]
            /\ UNCHANGED wg
       ELSE /\ lasPC' = [lasPC EXCEPT ![p][i] = "blocked"]
            /\ wg' = [wg EXCEPT ![p][i].waiters = @ + 1]
    /\ UNCHANGED <<procVars, regVars>>
    /\ UNCHANGED <<isChild, tls, state, ppid, EndlessListener, sigChan, sigPC, hamPC,
                   conns, SignalHooks, log, hist>>

\* the woken wg.Wait(): it panics ("WaitGroup is reused before previous Wait
\* has returned") when the WaitGroup's state is no longer 0; nothing recovers
\* that panic, the process dies
WaitWake(p, i) ==
    /\ Up(p)
    /\ lasPC[p][i] = "woken"
    /\ IF wg[p][i].counter = 0 /\ wg[p][i].waiters = 0
       THEN /\ lasPC' = [lasPC EXCEPT ![p][i] = "setterm"]
            /\ UNCHANGED procState
       ELSE /\ lasPC' = [lasPC EXCEPT ![p][i] = "panicked"]
            /\ procState' = [procState EXCEPT ![p] = "crashed"]
    /\ UNCHANGED <<environ, inherited, program, DefaultHammerTime, nsig, logOn, regVars>>
    /\ UNCHANGED <<isChild, tls, state, ppid, EndlessListener, wg, sigChan, sigPC,
                   hamPC, conns, SignalHooks, log, hist>>

\* srv.setState(STATE_TERMINATE); Serve and ListenAndServe return
ServeSetTerminate(p, i) ==
    /\ Up(p)
    /\ lasPC[p][i] = "setterm"
    /\ state' = [state EXCEPT ![p][i] = STATE_TERMINATE]
    /\ lasPC' = [lasPC EXCEPT ![p][i] = "returned"]
    /\ UNCHANGED <<procVars, regVars>>
    /\ UNCHANGED <<isChild, tls, ppid, EndlessListener, wg, sigChan, sigPC, hamPC,
                   conns, SignalHooks, log, hist>>

(***************************************************************************)
(* Connections                                                             *)
(***************************************************************************)
\* a Close that calls wg.Done() whatever the underlying Close returned
CloseAlwaysDecrements(err) == TRUE

\* whether endlessConn.Close calls wg.Done(): only when the underlying
\* Close returned no error
CloseDecrements(err) == err = Nil

\* w.Conn.Close() of a connection: a second Close of a TCP connection fails
ConnCloseErr(st) == IF st = "open" THEN Nil ELSE "closed"

\* endlessConn.Close on an accepted connection c. A wg.Done() that panics
\* does so in the connection's goroutine, where nothing recovers it.
ConnClose(p, i, c) ==
    LET err == ConnCloseErr(conns[p][i][c])
        r == WgAdd(wg[p][i], -1)
    IN /\ Up(p)
       /\ conns[p][i][c] \in {"open", "closed"}
       /\ conns' = [conns EXCEPT ![p][i][c] = IF @ = "open" THEN "closed" ELSE "reclosed"]
       /\ IF CloseDecrements(err)
          THEN /\ wg' = [wg EXCEPT ![p][i] = r.wg]
               /\ lasPC' = [lasPC EXCEPT ![p][i] = WakeServe(@, r)]
               /\ procState' = IF r.panic THEN [procState EXCEPT ![p] = "crashed"]
                               ELSE procState
          ELSE UNCHANGED <<wg, lasPC, procState>>
       /\ UNCHANGED <<environ, inherited, program, DefaultHammerTime, nsig, logOn, regVars>>
       /\ UNCHANGED <<isChild, tls, state, ppid, EndlessListener, sigChan, sigPC,
                      hamPC, SignalHooks, log, hist>>

(***************************************************************************)
(* The signal loop: handleSignals                                          *)
(***************************************************************************)
\* a signal sent to process p from outside (a terminal, kill(1), an init
\* system); at least one signal loop is subscribed
EnvSignal(p, sig, max) ==
    /\ Up(p)
    /\ nsig[p] < max
    /\ \E i \in Slots : Notified(p, i)
    /\ sigChan' = Deliver(p, sig)
    /\ nsig' = [nsig EXCEPT ![p] = @ + 1]
    /\ UNCHANGED <<procState, environ, inherited, program, DefaultHammerTime, logOn,
                   regVars>>
    /\ UNCHANGED <<isChild, tls, state, lasPC, ppid, EndlessListener, wg, sigPC,
                   hamPC, conns, SignalHooks, log, hist>>

\* the hooks signalHooks(ppFlag, sig) runs
HooksFor(p, i, ppFlag, sig) == SignalHooks[p][i][ppFlag][sig]

\* a loop over the hooks from the last registered to the first
HookAtReversed(hooks, k) == hooks[Len(hooks) + 1 - k]

\* the hook the range loop of signalHooks calls in its k-th round
HookAt(hooks, k) == hooks[k]

\* the loop after the built-in action: the Post hooks, then the next receive
SigNext(p, i) ==
    LET s == sigPC[p][i].sig
    IN IF Len(HooksFor(p, i, POST_SIGNAL, s)) > 0
       THEN [phase |-> "post", sig |-> s, idx |-> 0]
       ELSE [phase |-> "recv", sig |-> Nil, idx |-> 0]

\* sig = <-srv.sigChan
SigRecv(p, i) ==
    LET s == Head(sigChan[p][i])
    IN /\ Up(p)
       /\ sigPC[p][i].phase = "recv"
       /\ sigChan[p][i] # <<>>
       /\ sigChan' = [sigChan EXCEPT ![p][i] = Tail(@)]
       /\ sigPC' = [sigPC EXCEPT ![p][i] =
              [phase |-> IF Len(HooksFor(p, i, PRE_SIGNAL, s)) > 0 THEN "pre" ELSE "act",
               sig |-> s, idx |-> 0]]
       /\ log' = Record(p, i, Ev("sig", s))
       /\ UNCHANGED <<procVars, regVars>>
       /\ UNCHANGED <<isChild, tls, state, lasPC, ppid, EndlessListener, wg, hamPC,
                      conns, SignalHooks, hist>>

\* one round of the loop of signalHooks: f()
RunHook(p, i) ==
    LET pc == sigPC[p][i]
        ppFlag == IF pc.phase = "pre" THEN PRE_SIGNAL ELSE POST_SIGNAL
        hooks == HooksFor(p, i, ppFlag, pc.sig)
        k == pc.idx + 1
    IN /\ Up(p)
       /\ pc.phase \in {"pre", "post"}
       /\ log' = Record(p, i, HookEv(ppFlag, pc.sig, HookAt(hooks, k)))
       /\ sigPC' = [sigPC EXCEPT ![p][i] =
              IF k < Len(hooks) THEN [pc EXCEPT !.idx = k]
              ELSE IF pc.phase = "pre" THEN [pc EXCEPT !.phase = "act", !.idx = 0]
              ELSE [phase |-> "recv", sig |-> Nil, idx |-> 0]]
       /\ UNCHANGED <<procVars, regVars>>
       /\ UNCHANGED <<isChild, tls, state, lasPC, ppid, EndlessListener, wg, sigChan,
                      hamPC, conns, SignalHooks, hist>>

\* what the built-in action of a signal records when it starts and when it
\* has returned
Started(p, i) == Record(p, i, Ev("act", sigPC[p][i].sig))
Returned(l, p, i) ==
    IF logOn THEN [l EXCEPT ![p][i] = Append(@, Ev("done", sigPC[p][i].sig))] ELSE l

\* case SIGUSR1, SIGTSTP: only the log line
ActNoop(p, i) ==
    /\ Up(p)
    /\ sigPC[p][i].phase = "act"
    /\ sigPC[p][i].sig \in {"USR1", "TSTP"}
    /\ log' = Returned(Started(p, i), p, i)
    /\ sigPC' = [sigPC EXCEPT ![p][i] = SigNext(p, i)]
    /\ UNCHANGED <<procVars, regVars>>
    /\ UNCHANGED <<isChild, tls, state, lasPC, ppid, EndlessListener, wg, sigChan,
                   hamPC, conns, SignalHooks, hist>>

\* case SIGUSR2: srv.hammerTime(0) is called in the signal loop, which goes
\* on when it returns
ActHammer(p, i) ==
    /\ Up(p)
    /\ sigPC[p][i].phase = "act"
    /\ sigPC[p][i].sig = "USR2"
    /\ log' = Started(p, i)
    /\ sigPC' = [sigPC EXCEPT ![p][i].phase = "hammer"]
    /\ hamPC' = [hamPC EXCEPT ![p][i].usr2 = "start"]
    /\ hist' = [hist EXCEPT ![p][i].usr2 = TRUE]
    /\ UNCHANGED <<procVars, regVars>>
    /\ UNCHANGED <<isChild, tls, state, lasPC, ppid, EndlessListener, wg, sigChan,
                   conns, SignalHooks>>

(***************************************************************************)
(* shutdown                                                                *)
(***************************************************************************)
\* a shutdown() that only checks that Serve has been called
ShutdownRefusedInInit(st) == st = STATE_INIT

\* a shutdown() that proceeds in every state
ShutdownNeverRefused(st) == FALSE

\* the guard of shutdown(): srv.getState() != STATE_RUNNING returns
ShutdownRefused(st) == st # STATE_RUNNING

\* case SIGINT, SIGTERM: shutdown() reads the state
ShutdownCheck(p, i) ==
    /\ Up(p)
    /\ sigPC[p][i].phase = "act"
    /\ sigPC[p][i].sig \in {"INT", "TERM"}
    /\ IF ShutdownRefused(state[p][i])
       THEN /\ sigPC' = [sigPC EXCEPT ![p][i] = SigNext(p, i)]
            /\ log' = Returned(Started(p, i), p, i)
       ELSE /\ sigPC' = [sigPC EXCEPT ![p][i].phase = "sd_set"]
            /\ log' = Started(p, i)
    /\ UNCHANGED <<procVars, regVars>>
    /\ UNCHANGED <<isChild, tls, state, lasPC, ppid, EndlessListener, wg, sigChan,
                   hamPC, conns, SignalHooks, hist>>

\* a shutdown() that starts the hammer whatever DefaultHammerTime is
HammerAlwaysEnabled == TRUE

\* whether shutdown() starts the delayed hammer
HammerEnabled == DefaultHammerTime >= 0

\* srv.setState(STATE_SHUTTING_DOWN); go srv.hammerTime(DefaultHammerTime)
ShutdownSet(p, i) ==
    /\ Up(p)
    /\ sigPC[p][i].phase = "sd_set"
    /\ state' = [state EXCEPT ![p][i] = STATE_SHUTTING_DOWN]
    /\ hamPC' = [hamPC EXCEPT ![p][i].delayed = IF HammerEnabled THEN "start" ELSE @]
    /\ sigPC' = [sigPC EXCEPT ![p][i].phase = "sd_close"]
    /\ UNCHANGED <<procVars, regVars>>
    /\ UNCHANGED <<isChild, tls, lasPC, ppid, EndlessListener, wg, sigChan, conns,
                   SignalHooks, log, hist>>

\* endlessListener.Close(): EINVAL when stopped, else stopped is set and
\* the underlying listener closed
ListenerClose(l) == IF l.stopped THEN l ELSE [l EXCEPT !.stopped = TRUE]

\* srv.EndlessListener.Close(), the end of shutdown()
ShutdownClose(p, i) ==
    /\ Up(p)
    /\ sigPC[p][i].phase = "sd_close"
    /\ EndlessListener' = [EndlessListener EXCEPT ![p][i] = ListenerClose(@)]
    /\ sigPC' = [sigPC EXCEPT ![p][i] = SigNext(p, i)]
    /\ log' = Returned(log, p, i)
    /\ UNCHANGED <<procVars, regVars>>
    /\ UNCHANGED <<isChild, tls, state, lasPC, ppid, wg, sigChan, hamPC, conns,
                   SignalHooks, hist>>

(***************************************************************************)
(* hammerTime                                                              *)
(***************************************************************************)
HammerTasks == {"delayed", "usr2"}

\* a step of hammer task h to program point next; "off" is the return, which
\* for the USR2 hammer resumes the signal loop
HammerGoto(p, i, h, next) ==
    /\ hamPC' = [hamPC EXCEPT ![p][i][h] = next]
    /\ IF next = "off" /\ h = "usr2"
       THEN /\ sigPC' = [sigPC EXCEPT ![p][i] = SigNext(p, i)]
            /\ log' = Returned(log, p, i)
       ELSE UNCHANGED <<sigPC, log>>

\* a hammerTime() without its guard
HammerNeverRefused(st) == FALSE

\* the guard of hammerTime(): srv.getState() != STATE_SHUTTING_DOWN returns
HammerRefused(st) == st # STATE_SHUTTING_DOWN

\* the guard and the sleep (which orders nothing)
HammerStart(p, i, h) ==
    /\ Up(p)
    /\ hamPC[p][i][h] = "start"
    /\ HammerGoto(p, i, h, IF HammerRefused(state[p][i]) THEN "off" ELSE "loop")
    /\ UNCHANGED <<procVars, regVars>>
    /\ UNCHANGED <<isChild, tls, state, lasPC, ppid, EndlessListener, wg, sigChan,
                   conns, SignalHooks, hist>>

\* the head of the loop: srv.getState() == STATE_TERMINATE breaks
HammerLoop(p, i, h) ==
    /\ Up(p)
    /\ hamPC[p][i][h] = "loop"
    /\ HammerGoto(p, i, h, IF state[p][i] = STATE_TERMINATE THEN "off" ELSE "dec")
    /\ UNCHANGED <<procVars, regVars>>
    /\ UNCHANGED <<isChild, tls, state, lasPC, ppid, EndlessListener, wg, sigChan,
                   conns, SignalHooks, hist>>

\* srv.wg.Done(); runtime.Gosched(). The panic of a counter below 0 is
\* recovered by the deferred function: hammerTime returns.
HammerDone(p, i, h) ==
    LET r == WgAdd(wg[p][i], -1)
    IN /\ Up(p)
       /\ hamPC[p][i][h] = "dec"
       /\ wg' = [wg EXCEPT ![p][i] = r.wg]
       /\ lasPC' = [lasPC EXCEPT ![p][i] = WakeServe(@, r)]
       /\ hist' = [hist EXCEPT ![p][i].hammered = TRUE]
       /\ HammerGoto(p, i, h, IF r.panic THEN "off" ELSE "loop")
       /\ UNCHANGED <<procVars, regVars>>
       /\ UNCHANGED <<isChild, tls, state, ppid, EndlessListener, sigChan, conns,
                      SignalHooks>>

(***************************************************************************)
(* One server instance from construction to termination                    *)
(***************************************************************************)
\* a first-generation process that has constructed one server, for "a"
InitLife ==
    /\ InitProcVars
    /\ InitSrvVars
    /\ program = {<<"a", "b">>}
    /\ DefaultHammerTime \in {-1, 0}
    /\ logOn = FALSE

LifeStep(p, i) ==
    \/ StartListenAndServe(p, i)
    \/ GetListenerFresh(p, i)
    \/ BeforeBegin(p, i)
    \/ ServeSetRunning(p, i)
    \/ Accept(p, i)
    \/ ServeAcceptError(p, i)
    \/ WaitEnter(p, i)
    \/ WaitWake(p, i)
    \/ ServeSetTerminate(p, i)
    \/ \E c \in 1..MaxConns : ConnClose(p, i, c)
    \/ SigRecv(p, i)
    \/ ActNoop(p, i)
    \/ ActHammer(p, i)
    \/ ShutdownCheck(p, i)
    \/ ShutdownSet(p, i)
    \/ ShutdownClose(p, i)
    \/ \E h \in HammerTasks : HammerStart(p, i, h)
    \/ \E h \in HammerTasks : HammerLoop(p, i, h)
    \/ \E h \in HammerTasks : HammerDone(p, i, h)

NextLife ==
    \/ \E a \in Addrs : NewServer("parent", a)
    \/ \E i \in Slots : LifeStep("parent", i)
    \/ \E sig \in {"USR1", "USR2", "INT", "TERM"} : EnvSignal("parent", sig, MaxSignals)

SpecLife == InitLife /\ [][NextLife]_vars

\* The goroutines of an instance. The Go scheduler runs every runnable
\* goroutine eventually; clients and the senders of signals owe nothing.
ServeSteps(p, i) ==
    \/ GetListenerFresh(p, i)
    \/ BeforeBegin(p, i)
    \/ ServeSetRunning(p, i)
    \/ ServeAcceptError(p, i)
    \/ WaitEnter(p, i)
    \/ WaitWake(p, i)
    \/ ServeSetTerminate(p, i)

MainSteps(p, i) ==
    \/ StartListenAndServe(p, i)
    \/ ServeSteps(p, i)

SignalSteps(p, i) ==
    \/ SigRecv(p, i)
    \/ ActNoop(p, i)
    \/ ActHammer(p, i)
    \/ ShutdownCheck(p, i)
    \/ ShutdownSet(p, i)
    \/ ShutdownClose(p, i)

HammerSteps(p, i, h) ==
    \/ HammerStart(p, i, h)
    \/ HammerLoop(p, i, h)
    \/ HammerDone(p, i, h)

FairLife ==
    /\ SpecLife
    /\ WF_vars(MainSteps("parent", 1))
    /\ WF_vars(SignalSteps("parent", 1))
    /\ \A h \in HammerTasks : WF_vars(HammerSteps("parent", 1, h))

(***************************************************************************)
(* Claims about the lifecycle of one instance                              *)
(***************************************************************************)
\* the connections of an instance whose Close has not succeeded yet
OpenConns(p, i) == {c \in 1..MaxConns : conns[p][i][c] = "open"}

C3_ConnAccounting ==
    \A p \in Procs, i \in Slots :
        ~hist[p][i].hammered => wg[p][i].counter = Cardinality(OpenConns(p, i))

\* one connection closed twice, another still open, no hammer so far
C3_Witness ==
    /\ ~hist["parent"][1].hammered
    /\ \E c, d \in 1..MaxConns :
          conns["parent"][1][c] = "reclosed" /\ conns["parent"][1][d] = "open"
    /\ wg["parent"][1].counter = 1

\* C4: with DefaultHammerTime >= 0, an instance that enters shutdown() in
\* state Running (INT or TERM) eventually reaches Terminated.
C4_HammerReleases ==
    \A i \in Slots :
        (/\ DefaultHammerTime >= 0
         /\ state["parent"][i] = STATE_RUNNING
         /\ sigPC["parent"][i].phase = "act"
         /\ sigPC["parent"][i].sig \in {"INT", "TERM"})
        ~> (state["parent"][i] = STATE_TERMINATE)

\* C5: with a negative DefaultHammerTime and no USR2 handled, no hammer is
\* started, no hammer decrements, and Serve gets past wg.Wait() (and sets
\* Terminated) only when no accepted connection is left unclosed.
C5_DrainBarrier ==
    \A p \in Procs, i \in Slots :
        (DefaultHammerTime < 0 /\ ~hist[p][i].usr2) =>
            /\ hamPC[p][i].delayed = "off"
            /\ ~hist[p][i].hammered
            /\ (lasPC[p][i] \in {"setterm", "returned"} \/ state[p][i] = STATE_TERMINATE)
                   => OpenConns(p, i) = {}

\* no hammer, and the instance terminated after its connections were closed
C5_Witness ==
    /\ DefaultHammerTime < 0
    /\ ~hist["parent"][1].usr2
    /\ state["parent"][1] = STATE_TERMINATE
    /\ \A c \in 1..MaxConns : conns["parent"][1][c] \in {"closed", "reclosed"}

(***************************************************************************)
(* fork                                                                    *)
(***************************************************************************)
\* a fork() without the runningServersForked guard
ForkNeverRefused(p) == FALSE

\* the guard of fork(): "only one server instance should fork!"
ForkRefused(p) == runningServersForked[p]

\* case SIGHUP: fork() takes the registry's write lock and checks the flag
ForkEnter(p, i) ==
    /\ Up(p)
    /\ sigPC[p][i].phase = "act"
    /\ sigPC[p][i].sig = "HUP"
    /\ runningServerReg[p] = 0
    /\ IF ForkRefused(p)
       THEN /\ sigPC' = [sigPC EXCEPT ![p][i] = SigNext(p, i)]
            /\ log' = Returned(Started(p, i), p, i)
            /\ UNCHANGED <<runningServersForked, runningServerReg>>
       ELSE /\ runningServersForked' = [runningServersForked EXCEPT ![p] = TRUE]
            /\ runningServerReg' = [runningServerReg EXCEPT ![p] = i]
            /\ sigPC' = [sigPC EXCEPT ![p][i].phase = "fork"]
            /\ log' = Started(p, i)
    /\ UNCHANGED <<procVars, runningServersOrder, socketPtrOffsetMap, spawned>>
    /\ UNCHANGED <<isChild, tls, state, lasPC, ppid, EndlessListener, wg, sigChan,
                   hamPC, conns, SignalHooks, hist>>

\* socketPtrOffsetMap[srvPtr.Server.Addr]
OffsetOf(p, j) == Lookup(socketPtrOffsetMap[p], Addr(p, j))

\* endlessListener.File(): a dup of the listening socket; tl.File() fails on
\* a closed listener and the error is dropped, leaving a nil file
File(l) == IF l.stopped THEN NoFile ELSE l.sock

\* the loop over runningServers panics on an instance without a listener
\* (nil dereference) and on an offset outside the slices
ForkPanics(p) ==
    \E j \in runningServers(p) :
        \/ ~EndlessListener[p][j].set
        \/ OffsetOf(p, j) >= Len(runningServersOrder[p])

\* the instances whose descriptor goes to slot k
SlotOwners(p, k) == {j \in runningServers(p) : OffsetOf(p, j) = k}

\* files and orderArgs after the loop, when the instance written last to
\* slot k is pick[k] (0: nobody writes the slot)
FilesOf(p, pick) ==
    [k \in 1..Len(runningServersOrder[p]) |->
        IF pick[k] = 0 THEN NoFile ELSE File(EndlessListener[p][pick[k]])]

OrderArgsOf(p, pick) ==
    [k \in 1..Len(runningServersOrder[p]) |->
        IF pick[k] = 0 THEN <<>> ELSE Addr(p, pick[k])]

\* the environment of the child: ENDLESS_CONTINUE=1 and, for more than one
\* server, ENDLESS_SOCKET_ORDER
ChildEnv(p, orderArgs) ==
    [cont |-> TRUE,
     order |-> IF Len(runningServersOrder[p]) > 1 THEN Join(orderArgs)
               ELSE environ[p].order]

\* the rest of fork(): gather the descriptors, cmd.Start(), unlock; the
\* process a restart child spawns is counted and not followed
ForkSpawn(p, i) ==
    /\ Up(p)
    /\ sigPC[p][i].phase = "fork"
    /\ IF ForkPanics(p)
       THEN /\ procState' = [procState EXCEPT ![p] = "crashed"]
            /\ UNCHANGED <<environ, inherited, spawned, runningServerReg, sigPC, log>>
       ELSE \E pick \in [1..Len(runningServersOrder[p]) -> {0} \cup runningServers(p)] :
            /\ \A k \in DOMAIN pick :
                  IF SlotOwners(p, k - 1) = {} THEN pick[k] = 0
                  ELSE pick[k] \in SlotOwners(p, k - 1)
            /\ spawned' = [spawned EXCEPT ![p] = @ + 1]
            /\ IF procState["child"] = "none"
               THEN /\ procState' = [procState EXCEPT !["child"] = "up"]
                    /\ environ' = [environ EXCEPT
                                      !["child"] = ChildEnv(p, OrderArgsOf(p, pick))]
                    /\ inherited' = [inherited EXCEPT !["child"] = FilesOf(p, pick)]
               ELSE UNCHANGED <<procState, environ, inherited>>
            /\ runningServerReg' = [runningServerReg EXCEPT ![p] = 0]
            /\ sigPC' = [sigPC EXCEPT ![p][i] = SigNext(p, i)]
            /\ log' = Returned(log, p, i)
    /\ UNCHANGED <<program, DefaultHammerTime, nsig, logOn>>
    /\ UNCHANGED <<runningServersOrder, socketPtrOffsetMap, runningServersForked>>
    /\ UNCHANGED <<isChild, tls, state, lasPC, ppid, EndlessListener, wg, sigChan,
                   hamPC, conns, SignalHooks, hist>>

\* cmd.Start() fails: logFatalf ends the process
ForkSpawnFail(p, i) ==
    /\ Up(p)
    /\ sigPC[p][i].phase = "fork"
    /\ ~ForkPanics(p)
    /\ spawned' = [spawned EXCEPT ![p] = @ + 1]
    /\ procState' = [procState EXCEPT ![p] = "exited"]
    /\ UNCHANGED <<environ, inherited, program, DefaultHammerTime, nsig, logOn>>
    /\ UNCHANGED <<runningServersOrder, socketPtrOffsetMap, runningServersForked,
                   runningServerReg>>
    /\ UNCHANGED srvVars

\* main() returns once every ListenAndServe call of the program has returned
ProcExit(p) ==
    /\ Up(p)
    /\ \A a \in program : Registered(p, a)
    /\ \A i \in runningServers(p) : lasPC[p][i] \in {"returned", "failed"}
    /\ procState' = [procState EXCEPT ![p] = "exited"]
    /\ UNCHANGED <<environ, inherited, program, DefaultHammerTime, nsig, logOn>>
    /\ UNCHANGED regVars
    /\ UNCHANGED srvVars

(***************************************************************************)
(* HUPs to a parent with up to two servers                                 *)
(***************************************************************************)
Programs == {P \in SUBSET Addrs : Cardinality(P) \in 1..Cardinality(Slots)}

\* a first-generation process whose main() starts one server per address of
\* the program, each with the package's ListenAndServe
InitUpgrade ==
    /\ InitProcVars
    /\ InitSrvVars
    /\ program \in Programs
    /\ DefaultHammerTime = -1
    /\ logOn = FALSE

ForkStep(p, i) ==
    \/ GetListenerFresh(p, i)
    \/ BeforeBegin(p, i)
    \/ ServeSetRunning(p, i)
    \/ SigRecv(p, i)
    \/ ForkEnter(p, i)
    \/ ForkSpawn(p, i)
    \/ ForkSpawnFail(p, i)

NextFork ==
    \/ \E a \in Addrs : ListenAndServe("parent", a)
    \/ \E i \in Slots : ForkStep("parent", i)
    \/ EnvSignal("parent", "HUP", MaxSignals)

SpecFork == InitUpgrade /\ [][NextFork]_vars

\* the fork() calls of process p that are past the guard and before the spawn
Forking(p) == {i \in Slots : Up(p) /\ sigPC[p][i].phase = "fork"}

\* C1: whatever the number of HUPs and of signal loops, at most one fork()
\* call of a process passes the runningServersForked guard, and cmd.Start()
\* is reached at most once: the calls past the guard and the spawns so far
\* are never more than one together.
C1_ForkOnce ==
    \A p \in Procs :
        /\ spawned[p] + Cardinality(Forking(p)) <= 1
        /\ (spawned[p] + Cardinality(Forking(p)) = 1) => runningServersForked[p]

\* two signal loops have handled at least two HUPs each between them, one
\* child was spawned and every other call was refused
C1_Witness ==
    /\ spawned["parent"] = 1
    /\ procState["child"] = "up"
    /\ nsig["parent"] >= 2
    /\ Len(runningServersOrder["parent"]) = 2
    /\ \A i \in Slots : sigPC["parent"][i].phase = "recv" /\ sigChan["parent"][i] = <<>>

(***************************************************************************)
(* What the child inherits                                                 *)
(***************************************************************************)
InheritStep(p, i) ==
    \/ GetListenerFresh(p, i)
    \/ SigRecv(p, i)
    \/ ForkEnter(p, i)
    \/ ForkSpawn(p, i)
    \/ ForkSpawnFail(p, i)

NextInherit ==
    \/ \E p \in Procs, a \in Addrs : ListenAndServe(p, a)
    \/ \E i \in Slots : InheritStep("parent", i)
    \/ \E i \in Slots : GetListenerInherited("child", i)
    \/ EnvSignal("parent", "HUP", MaxHups)

SpecInherit == InitUpgrade /\ [][NextInherit]_vars

\* the parent had registered every server of the program when it forked
ForkedWhole == Len(inherited["child"]) = Cardinality(program)

\* the position (from 0) of address a in the parent's ordered address list
PositionOf(a) ==
    (CHOOSE k \in 1..Len(runningServersOrder["parent"]) :
        runningServersOrder["parent"][k] = a) - 1

\* C7: in a restart child every instance obtains its listener from
\* descriptor 3 + i, i the position of its address in the parent's ordered
\* address list, the empty address included; no two instances of the child
\* adopt the same descriptor.
C7_DescriptorOfPosition ==
    ForkedWhole =>
        /\ \A i \in runningServers("child") :
              EndlessListener["child"][i].set =>
                  EndlessListener["child"][i].fd = FirstFd + PositionOf(Addr("child", i))
        /\ \A i, j \in runningServers("child") :
              (/\ i # j
               /\ EndlessListener["child"][i].set
               /\ EndlessListener["child"][j].set)
                  => EndlessListener["child"][i].fd # EndlessListener["child"][j].fd

\* C8: the address-to-offset mapping the child builds (from
\* ENDLESS_SOCKET_ORDER, or from its own registration for one server) is the
\* parent's mapping, for every list of distinct registered addresses.
C8_SocketOrderRoundTrip ==
    (/\ Up("child")
     /\ ForkedWhole
     /\ Len(runningServersOrder["child"]) >= 1)
        => socketPtrOffsetMap["child"] = socketPtrOffsetMap["parent"]

\* two addresses, one of them empty, encoded by the parent and decoded by a
\* child that registers its servers in the other order
C8_Witness ==
    /\ Up("child")
    /\ ForkedWhole
    /\ Len(runningServersOrder["child"]) = 2
    /\ runningServersOrder["child"] # runningServersOrder["parent"]
    /\ environ["child"].order # <<>>
    /\ socketPtrOffsetMap["child"] = socketPtrOffsetMap["parent"]

(***************************************************************************)
(* A binary upgrade: HUP, the child, its SIGTERMs, the parent's shutdown   *)
(***************************************************************************)
\* The child is followed until it has sent its SIGTERMs.
ChildStep(p, i) ==
    \/ GetListenerInherited(p, i)
    \/ ReadPpid(p, i)
    \/ KillParent(p, i)
    \/ KillDone(p, i)

UpgradeStep(p, i) ==
    \/ GetListenerFresh(p, i)
    \/ BeforeBegin(p, i)
    \/ ServeSetRunning(p, i)
    \/ ServeAcceptError(p, i)
    \/ WaitEnter(p, i)
    \/ ServeSetTerminate(p, i)
    \/ SigRecv(p, i)
    \/ ShutdownCheck(p, i)
    \/ ShutdownSet(p, i)
    \/ ShutdownClose(p, i)
    \/ ForkEnter(p, i)
    \/ ForkSpawn(p, i)
    \/ ForkSpawnFail(p, i)

NextUpgrade ==
    \/ \E p \in Procs, a \in Addrs : ListenAndServe(p, a)
    \/ \E i \in Slots : UpgradeStep("parent", i)
    \/ \E i \in Slots : ChildStep("child", i)
    \/ ProcExit("parent")
    \/ EnvSignal("parent", "HUP", MaxHups)

SpecUpgrade == InitUpgrade /\ [][NextUpgrade]_vars

\* C6: the parent closes its listener for an address (which here only a
\* SIGTERM of the child makes it do) only after the child has opened its
\* own listener for that address from the inherited descriptor.
C6_HandoffOrder ==
    ForkedWhole =>
        \A i \in runningServers("parent") :
            EndlessListener["parent"][i].stopped =>
                \E j \in runningServers("child") :
                    /\ Addr("child", j) = Addr("parent", i)
                    /\ EndlessListener["child"][j].set

(***************************************************************************)
(* The upgrade of a one-server program with a hammer, to its end           *)
(***************************************************************************)
InitHandoff ==
    /\ InitProcVars
    /\ InitSrvVars
    /\ program = {<<"a", "b">>}
    /\ DefaultHammerTime = 0
    /\ logOn = FALSE

HandoffStep(p, i) ==
    \/ ServeSteps(p, i)
    \/ Accept(p, i)
    \/ \E c \in 1..MaxConns : ConnClose(p, i, c)
    \/ SigRecv(p, i)
    \/ ShutdownCheck(p, i)
    \/ ShutdownSet(p, i)
    \/ ShutdownClose(p, i)
    \/ ForkEnter(p, i)
    \/ ForkSpawn(p, i)
    \/ ForkSpawnFail(p, i)
    \/ \E h \in HammerTasks : HammerSteps(p, i, h)

NextHandoff ==
    \/ \E p \in Procs, a \in Addrs : ListenAndServe(p, a)
    \/ \E i \in Slots : HandoffStep("parent", i)
    \/ \E i \in Slots : ChildStep("child", i)
    \/ ProcExit("parent")
    \/ EnvSignal("parent", "HUP", MaxHups)

SpecHandoff == InitHandoff /\ [][NextHandoff]_vars

\* the goroutines of the parent's instance and the child's start-up are
\* scheduled; clients owe nothing
FairHandoff ==
    /\ SpecHandoff
    /\ WF_vars(ServeSteps("parent", 1))
    /\ WF_vars(SigRecv("parent", 1) \/ ShutdownCheck("parent", 1)
                 \/ ShutdownSet("parent", 1) \/ ShutdownClose("parent", 1)
                 \/ ForkEnter("parent", 1) \/ ForkSpawn("parent", 1))
    /\ \A h \in HammerTasks : WF_vars(HammerSteps("parent", 1, h))
    /\ WF_vars(ChildStep("child", 1))

\* the child has its listeners and has sent its SIGTERMs to the parent
ChildTookOver ==
    /\ spawned["parent"] = 1
    /\ \A a \in program : Registered("child", a)
    /\ \A j \in runningServers("child") :
          /\ EndlessListener["child"][j].set
          /\ ppid["child"][j].pid = "parent"
          /\ ppid["child"][j].cnt = KillTries

\* C9: with DefaultHammerTime >= 0, once the fork has succeeded and the
\* child has acquired its listeners and sent its SIGTERMs, every instance of
\* the parent eventually reaches Terminated, whatever state it was in when
\* the signals were handled.
C9_UpgradeCompletes ==
    (DefaultHammerTime >= 0 /\ ChildTookOver)
        ~> (\A i \in runningServers("parent") : state["parent"][i] = STATE_TERMINATE)

(***************************************************************************)
(* Signal hooks                                                            *)
(***************************************************************************)
\* what a caller may pass to RegisterSignalHook
HookFlags == {PRE_SIGNAL, POST_SIGNAL, POST_SIGNAL + 1}
HookSignals == {"USR1", "TERM", "KILL"}

\* the hooks registered on an instance so far; the k-th registered hook is
\* the function k
HookCount(p, i) ==
    LET n(ph, s) == Len(SignalHooks[p][i][ph][s])
    IN n(PRE_SIGNAL, "USR1") + n(PRE_SIGNAL, "TERM")
         + n(POST_SIGNAL, "USR1") + n(POST_SIGNAL, "TERM")

\* srv.RegisterSignalHook(prePost, sig, f), called between NewServer and
\* ListenAndServe: an error, and nothing registered, for a prePost or a
\* signal that is not supported
\* a registration that puts the new hook first
PrependHook(hooks, f) == <<f>> \o hooks

\* append(srv.SignalHooks[prePost][sig], f)
AppendHook(hooks, f) == Append(hooks, f)

\* the error RegisterSignalHook returns
RegisterErr(prePost, sig) ==
    IF prePost \notin {PRE_SIGNAL, POST_SIGNAL} THEN "prePost"
    ELSE IF sig \notin hookableSignals THEN "signal"
    ELSE Nil

RegisterSignalHook(p, i, prePost, sig) ==
    /\ Up(p)
    /\ lasPC[p][i] = "new"
    /\ hist[p][i].regs < MaxHooks
    /\ IF RegisterErr(prePost, sig) = Nil
       THEN SignalHooks' = [SignalHooks EXCEPT ![p][i][prePost][sig] =
                                AppendHook(@, HookCount(p, i) + 1)]
       ELSE UNCHANGED SignalHooks
    /\ hist' = [hist EXCEPT ![p][i].regs = @ + 1,
                            ![p][i].last = [flag |-> prePost, sig |-> sig,
                                            err |-> RegisterErr(prePost, sig)]]
    /\ UNCHANGED <<procVars, regVars>>
    /\ UNCHANGED <<isChild, tls, state, lasPC, ppid, EndlessListener, wg, sigChan,
                   sigPC, hamPC, conns, log>>

\* one server with hooks that record, and signals to it
InitHooks ==
    /\ InitProcVars
    /\ InitSrvVars
    /\ program = {<<"a", "b">>}
    /\ DefaultHammerTime = -1
    /\ logOn = TRUE

HooksStep(p, i) ==
    \/ \E prePost \in HookFlags, sig \in HookSignals : RegisterSignalHook(p, i, prePost, sig)
    \/ StartListenAndServe(p, i)
    \/ GetListenerFresh(p, i)
    \/ BeforeBegin(p, i)
    \/ ServeSetRunning(p, i)
    \/ SigRecv(p, i)
    \/ RunHook(p, i)
    \/ ActNoop(p, i)
    \/ ShutdownCheck(p, i)
    \/ ShutdownSet(p, i)
    \/ ShutdownClose(p, i)

NextHooks ==
    \/ \E a \in Addrs : NewServer("parent", a)
    \/ \E i \in Slots : HooksStep("parent", i)
    \/ \E sig \in {"USR1", "TERM"} : EnvSignal("parent", sig, MaxSignals)

SpecHooks == InitHooks /\ [][NextHooks]_vars

\* the record of the signal loop: everything but the BeforeBegin entry
SignalLog(p, i) == SelectSeq(log[p][i], LAMBDA e : e.kind # "begin")

\* the hook entries of the hooks of (ppFlag, sig), in registration order
HookEvs(p, i, ppFlag, sig) ==
    [k \in 1..Len(SignalHooks[p][i][ppFlag][sig]) |->
        HookEv(ppFlag, sig, SignalHooks[p][i][ppFlag][sig][k])]

\* what one delivered signal leaves in the record when handled in order
Round(p, i, sig) ==
    <<Ev("sig", sig)>> \o HookEvs(p, i, PRE_SIGNAL, sig)
        \o <<Ev("act", sig), Ev("done", sig)>> \o HookEvs(p, i, POST_SIGNAL, sig)

\* l is a sequence of whole rounds followed by at most one begun round
RECURSIVE InRounds(_, _, _)
InRounds(p, i, l) ==
    IF l = <<>> THEN TRUE
    ELSE LET r == Round(p, i, l[1].sig)
         IN IF Len(l) >= Len(r)
            THEN /\ SubSeq(l, 1, Len(r)) = r
                 /\ InRounds(p, i, SubSeq(l, Len(r) + 1, Len(l)))
            ELSE l = SubSeq(r, 1, Len(l))

\* the hook table of an instance with f appended to the (ph, s) list
WithHook(p, i, ph, s, f) == [SignalHooks[p][i] EXCEPT ![ph][s] = Append(@, f)]

\* C11: a RegisterSignalHook call with a phase that is neither Pre nor Post,
\* or a signal that is not hookable, returns an error and leaves the whole
\* hook table as it was; any other call returns no error and appends the
\* function at the end of the (phase, signal) list and changes no other list.
C11_RegisterHook ==
    [][\A p \in Procs, i \in Slots :
          hist'[p][i].regs # hist[p][i].regs =>
              LET c == hist'[p][i].last
              IN IF c.flag \notin {PRE_SIGNAL, POST_SIGNAL} \/ c.sig \notin hookableSignals
                 THEN c.err # Nil /\ SignalHooks'[p][i] = SignalHooks[p][i]
                 ELSE /\ c.err = Nil
                      /\ \E f \in 1..(MaxHooks + 1) :
                            /\ \A ph \in {PRE_SIGNAL, POST_SIGNAL}, s \in hookableSignals :
                                  \A k \in 1..Len(SignalHooks[p][i][ph][s]) :
                                      SignalHooks[p][i][ph][s][k] # f
                            /\ SignalHooks'[p][i] = WithHook(p, i, c.flag, c.sig, f)]_vars

\* a refused call on an instance that has a hook registered
C11_Witness ==
    /\ hist["parent"][1].regs >= 2
    /\ hist["parent"][1].last.err # Nil
    /\ \E ph \in {PRE_SIGNAL, POST_SIGNAL}, s \in hookableSignals :
          Len(SignalHooks["parent"][1][ph][s]) >= 1

\* C10: within one instance, for every delivered signal the Pre hooks run in
\* registration order before the built-in action starts, the action
\* completes before any Post hook, the Post hooks run in registration
\* order, and all of it completes before the Pre hooks of the next signal.
C10_HookOrder ==
    \A p \in Procs, i \in Slots : InRounds(p, i, SignalLog(p, i))

\* two hooks of one list ran in a round that is complete, and a later
\* signal has been received
C10_Witness ==
    \E ph \in {PRE_SIGNAL, POST_SIGNAL}, s \in {"USR1", "TERM"} :
        /\ Len(SignalHooks["parent"][1][ph][s]) = 2
        /\ Len(SignalLog("parent", 1)) > Len(Round("parent", 1, s))
        /\ SubSeq(SignalLog("parent", 1), 1, Len(Round("parent", 1, s)))
               = Round("parent", 1, s)

(***************************************************************************)
(* ListenAndServeTLS                                                       *)
(***************************************************************************)
\* ListenAndServeTLS with a certificate that loads, up to
\* "go srv.handleSignals()"
StartListenAndServeTLS(p, i) ==
    /\ Up(p)
    /\ lasPC[p][i] = "new"
    /\ tls' = [tls EXCEPT ![p][i] = TRUE]
    /\ lasPC' = [lasPC EXCEPT ![p][i] = "getl"]
    /\ sigPC' = [sigPC EXCEPT ![p][i].phase = "recv"]
    /\ UNCHANGED <<procVars, regVars>>
    /\ UNCHANGED <<isChild, state, ppid, EndlessListener, wg, sigChan, hamPC, conns,
                   SignalHooks, log, hist>>

\* tls.LoadX509KeyPair fails: ListenAndServeTLS returns the error before the
\* signal loop is started
LoadKeyPairFail(p, i) ==
    /\ Up(p)
    /\ lasPC[p][i] = "new"
    /\ tls' = [tls EXCEPT ![p][i] = TRUE]
    /\ lasPC' = [lasPC EXCEPT ![p][i] = "failed"]
    /\ UNCHANGED <<procVars, regVars>>
    /\ UNCHANGED <<isChild, state, ppid, EndlessListener, wg, sigChan, sigPC, hamPC,
                   conns, SignalHooks, log, hist>>

\* syscall.Kill(syscall.Getppid(), syscall.SIGTERM) of ListenAndServeTLS:
\* once, whoever the parent is
KillParentTLS(p, i) ==
    /\ Up(p)
    /\ lasPC[p][i] = "killtls"
    /\ sigChan' = Deliver(Getppid, "TERM")
    /\ ppid' = [ppid EXCEPT ![p][i] = [pid |-> Getppid, cnt |-> 1]]
    /\ lasPC' = [lasPC EXCEPT ![p][i] = "println"]
    /\ UNCHANGED <<procVars, regVars>>
    /\ UNCHANGED <<isChild, tls, state, EndlessListener, wg, sigPC, hamPC, conns,
                   SignalHooks, log, hist>>

\* logPrintln(syscall.Getpid(), srv.Addr) of ListenAndServeTLS: the logger is
\* called, srv.BeforeBegin is not
PrintAddrTLS(p, i) ==
    /\ Up(p)
    /\ lasPC[p][i] = "println"
    /\ lasPC' = [lasPC EXCEPT ![p][i] = "serve"]
    /\ UNCHANGED <<procVars, regVars>>
    /\ UNCHANGED <<isChild, tls, state, ppid, EndlessListener, wg, sigChan, sigPC,
                   hamPC, conns, SignalHooks, log, hist>>

(***************************************************************************)
(* Start-up of a one-server program and of its restart child, on both      *)
(* paths                                                                   *)
(***************************************************************************)
InitStart ==
    /\ InitProcVars
    /\ InitSrvVars
    /\ program = {<<"a", "b">>}
    /\ DefaultHammerTime = -1
    /\ logOn = TRUE

\* the child is the parent's binary: it starts the server of an address
\* with the method the parent used for it (t: ListenAndServeTLS)
SameBinary(p, i, t) ==
    (p = "child" /\ i \in runningServers(p)) =>
        \A j \in runningServers("parent") :
            Addr("parent", j) = Addr(p, i) =>
                (lasPC["parent"][j] # "new" /\ tls["parent"][j] = t)

StartStep(p, i) ==
    \/ SameBinary(p, i, FALSE) /\ StartListenAndServe(p, i)
    \/ SameBinary(p, i, TRUE) /\ StartListenAndServeTLS(p, i)
    \/ LoadKeyPairFail(p, i)
    \/ GetListenerFresh(p, i)
    \/ GetListenerFreshFail(p, i)
    \/ GetListenerInherited(p, i)
    \/ ReadPpid(p, i)
    \/ KillParent(p, i)
    \/ KillDone(p, i)
    \/ KillParentTLS(p, i)
    \/ PrintAddrTLS(p, i)
    \/ BeforeBegin(p, i)
    \/ ServeSetRunning(p, i)
    \/ ServeAcceptError(p, i)
    \/ WaitEnter(p, i)
    \/ ServeSetTerminate(p, i)
    \/ SigRecv(p, i)
    \/ ShutdownCheck(p, i)
    \/ ShutdownSet(p, i)
    \/ ShutdownClose(p, i)
    \/ ForkEnter(p, i)
    \/ ForkSpawn(p, i)
    \/ ForkSpawnFail(p, i)

NextStart ==
    \/ \E p \in Procs, a \in Addrs : NewServer(p, a)
    \/ \E p \in Procs, i \in Slots : StartStep(p, i)
    \/ ProcExit("parent")
    \/ \E sig \in {"HUP", "TERM"} : EnvSignal("parent", sig, MaxSignals)

SpecStart == InitStart /\ [][NextStart]_vars

\* the instance is past the SIGTERM step of its start-up
PastKill(p, i) ==
    /\ isChild[p][i]
    /\ EndlessListener[p][i].set
    /\ lasPC[p][i] \notin {"getl", "getppid", "kill", "killtls"}

\* C12: a restart child whose parent is process 1 sends no SIGTERM to it, on
\* the ListenAndServe and on the ListenAndServeTLS path; a child whose parent
\* is not process 1 has sent it between one and three SIGTERMs when it goes on.
C12_KillUnlessOrphan ==
    \A i \in runningServers("child") :
        /\ ppid["child"][i].pid = "init" => ppid["child"][i].cnt = 0
        /\ (PastKill("child", i) /\ ppid["child"][i].pid = "parent")
               => ppid["child"][i].cnt \in 1..KillTries

\* the number of times srv.BeforeBegin was invoked on the instance
Begins(p, i) == Len(SelectSeq(log[p][i], LAMBDA e : e.kind = "begin"))

\* C13: on every start-up, on both paths, BeforeBegin is invoked exactly
\* once, after the listener is acquired and (in a child) after the SIGTERM
\* step, and before the state becomes Running.
C13_StartOrder ==
    \A p \in Procs, i \in Slots :
        /\ Begins(p, i) <= 1
        /\ Begins(p, i) = 1 =>
              /\ EndlessListener[p][i].set
              /\ isChild[p][i] => (ppid[p][i].cnt >= 1 \/ ppid[p][i].pid = "init")
        /\ state[p][i] # STATE_INIT => Begins(p, i) = 1

\* C14: when the listener cannot be acquired ListenAndServe(TLS) returns the
\* error and the instance stays in Init without a listener, for ever; a
\* restart child's listener is always the inherited descriptor's socket,
\* never a socket it bound itself.
C14_ListenFailure ==
    \A p \in Procs, i \in Slots :
        /\ lasPC[p][i] = "failed" =>
              (state[p][i] = STATE_INIT /\ ~EndlessListener[p][i].set)
        /\ (isChild[p][i] /\ EndlessListener[p][i].set) =>
              LET k == EndlessListener[p][i].fd - FirstFd
              IN /\ k >= 0
                 /\ k + 1 \in DOMAIN inherited[p]
                 /\ inherited[p][k + 1] # NoFile
                 /\ EndlessListener[p][i].sock = inherited[p][k + 1]

\* a child that found no listener behind its descriptor (the parent had
\* closed its listener before it forked): it returned the error, and the
\* signals it got afterwards left it in Init
C14_Witness ==
    /\ isChild["child"][1]
    /\ ~tls["child"][1]
    /\ lasPC["child"][1] = "failed"
    /\ inherited["child"] = <<NoFile>>
    /\ state["child"][1] = STATE_INIT

(***************************************************************************)
(* Claims about the counter, shutdown() and the hammer of one instance      *)
(***************************************************************************)
\* C15: an instance that handles USR2 while its counter is 0 reaches
\* Terminated: the hammer returns and Serve returns.
C15_Usr2Terminates ==
    \A i \in Slots :
        (/\ sigPC["parent"][i].phase = "act"
         /\ sigPC["parent"][i].sig = "USR2"
         /\ wg["parent"][i].counter = 0)
        ~> (state["parent"][i] = STATE_TERMINATE)

\* C16: the counter of outstanding connections is never negative.
C16_NonNegative ==
    \A p \in Procs, i \in Slots : wg[p][i].counter >= 0

\* C17: no Close of a connection decrements a counter that is not positive:
\* the underflow happens in the hammer only.
C17_UnderflowOnlyInHammer ==
    [][\A p \in Procs, i \in Slots :
          (\E c \in 1..MaxConns :
               conns[p][i][c] = "open" /\ conns'[p][i][c] = "closed")
              => wg[p][i].counter > 0]_vars

\* C18: once the state is Terminated the counter is not modified again.
C18_FrozenAfterTerminate ==
    [][\A p \in Procs, i \in Slots :
          state[p][i] = STATE_TERMINATE => wg'[p][i] = wg[p][i]]_vars

\* the signal loop of the instance is about to run shutdown()
AtShutdown(p, i) ==
    sigPC[p][i].phase = "act" /\ sigPC[p][i].sig \in {"INT", "TERM"}

C20_HammerFrame ==
    [][\A p \in Procs, i \in Slots, h \in HammerTasks :
          /\ (/\ hamPC[p][i][h] = "start"
              /\ hamPC'[p][i][h] # "start"
              /\ state[p][i] # STATE_SHUTTING_DOWN)
                => (/\ hamPC'[p][i][h] = "off"
                    /\ wg'[p][i] = wg[p][i]
                    /\ state'[p][i] = state[p][i]
                    /\ EndlessListener'[p][i] = EndlessListener[p][i])
          /\ (hamPC[p][i][h] # "off" /\ hamPC'[p][i][h] # hamPC[p][i][h])
                => state'[p][i] = state[p][i]
          /\ hamPC[p][i][h] \in {"loop", "dec"}
                => state[p][i] \in {STATE_SHUTTING_DOWN, STATE_TERMINATE}]_vars

\* a USR2 was handled by a Running instance with an open connection: the
\* hammer returned, the signal loop went on, nothing was decremented
C20_Witness ==
    /\ hist["parent"][1].usr2
    /\ ~hist["parent"][1].hammered
    /\ state["parent"][1] = STATE_RUNNING
    /\ hamPC["parent"][1].usr2 = "off"
    /\ sigPC["parent"][1].phase = "recv"
    /\ wg["parent"][1].counter = 1

(***************************************************************************)
(* HUPs to a restart child: fork() with the offsets of ENDLESS_SOCKET_ORDER *)
(***************************************************************************)
NextRefork ==
    \/ \E p \in Procs, a \in Addrs : ListenAndServe(p, a)
    \/ \E i \in Slots : InheritStep("parent", i)
    \/ \E i \in Slots : GetListenerInherited("child", i)
    \/ \E i \in Slots : SigRecv("child", i)
    \/ \E i \in Slots : ForkEnter("child", i)
    \/ \E i \in Slots : ForkSpawn("child", i)
    \/ \E i \in Slots : ForkSpawnFail("child", i)
    \/ \E p \in Procs : EnvSignal(p, "HUP", MaxHups)

SpecRefork == InitUpgrade /\ [][NextRefork]_vars

\* the offsets fork() of process p writes to are the slots 0..n-1 of its
\* slices, one registered instance each
SlotsFilled(p) ==
    /\ \A j \in runningServers(p) : OffsetOf(p, j) < Len(runningServersOrder[p])
    /\ \A k \in 0..(Len(runningServersOrder[p]) - 1) :
          Cardinality(SlotOwners(p, k)) = 1

\* C21: whenever a fork() call is past its guard and gathers descriptors,
\* every slot 0..n-1 of the slice has exactly one registered instance
\* writing it and no offset is n or more, in the first-generation parent and
\* in a restart child, also when only some of the program's instances are
\* constructed.
C21_OneDescriptorPerSlot ==
    \A p \in Procs : Forking(p) # {} => SlotsFilled(p)

\* every registered instance of process p holds a listener
ListenersHeld(p) == \A j \in runningServers(p) : EndlessListener[p][j].set

\* C22: whenever a signal loop has taken a HUP into fork() and the
\* descriptors are about to be gathered, every registered instance of the
\* process already holds its listener.
C22_ListenersBeforeFork ==
    \A p \in Procs : Forking(p) # {} => ListenersHeld(p)

(***************************************************************************)
(* endlessListener.Close, in src/unnamed/part_000 (a flag) and in          *)
(* src/endless.go (a channel and a goroutine)                              *)
(***************************************************************************)
EINVAL == "EINVAL"
\* the error of net.Listener.Close on a listener that is closed already
ErrClosed == "closed"

\* the goroutines that call Close on the listener of an instance: the
\* signal loop (shutdown) and the serving loop (the deferred l.Close() of
\* http.Server.Serve)
Callers == {"signal", "serve"}

\* newEndlessListener of src/unnamed/part_000. closes counts the Close
\* calls on the wrapped net.Listener, calls holds each caller's position
\* inside Close and rets what Close has returned to it.
newEndlessListener(sock) ==
    [set |-> TRUE, fd |-> 0, sock |-> sock, stopped |-> FALSE, closes |-> 0,
     stopper |-> [pc |-> "none", val |-> Nil],
     calls |-> [c \in Callers |-> "out"],
     rets |-> [c \in Callers |-> <<>>]]

\* newEndlessListener of src/endless.go: make(chan error) and the goroutine
\* waiting on it
newEndlessListenerStop(sock) ==
    [newEndlessListener(sock) EXCEPT !.stopper.pc = "recv"]

\* the listener is the one of src/unnamed/part_000
Flagged(p, i) == EndlessListener[p][i].stopper.pc = "none"

\* el.Listener.Close()
TCPClose(l) ==
    [l |-> [l EXCEPT !.closes = @ + 1],
     err |-> IF l.closes = 0 THEN Nil ELSE ErrClosed]

\* the caller is at its call of Close: srv.EndlessListener.Close() in
\* shutdown() (which src/endless.go calls on every SIGINT and SIGTERM), or
\* the l.Close() Server.Serve defers
AtClose(p, i, who) ==
    /\ EndlessListener[p][i].calls[who] = "out"
    /\ IF who = "signal"
       THEN IF Flagged(p, i) THEN sigPC[p][i].phase = "sd_close"
            ELSE sigPC[p][i].phase = "act" /\ sigPC[p][i].sig \in {"INT", "TERM"}
       ELSE lasPC[p][i] = "closing"

\* Close returns err to the caller, the listener being l
CloseReturns(p, i, who, l, err) ==
    /\ EndlessListener' = [EndlessListener EXCEPT ![p][i] =
           [l EXCEPT !.calls[who] = "out", !.rets[who] = Append(@, err)]]
    /\ IF who = "signal"
       THEN /\ sigPC' = [sigPC EXCEPT ![p][i] = SigNext(p, i)]
            /\ log' = Returned(log, p, i)
            /\ UNCHANGED lasPC
       ELSE /\ lasPC' = [lasPC EXCEPT ![p][i] = "wait"]
            /\ UNCHANGED <<sigPC, log>>

\* Server.Serve: AcceptTCP returns an error that is not temporary (the
\* listener is closed, or the accept failed for a reason of its own) and
\* Serve returns through its deferred l.Close()
ServeReturns(p, i) ==
    /\ Up(p)
    /\ lasPC[p][i] = "accepting"
    /\ lasPC' = [lasPC EXCEPT ![p][i] = "closing"]
    /\ UNCHANGED <<procVars, regVars>>
    /\ UNCHANGED <<isChild, tls, state, ppid, EndlessListener, wg, sigChan, sigPC,
                   hamPC, conns, SignalHooks, log, hist>>

\* if el.stopped { return syscall.EINVAL }
CloseCheck(p, i, who) ==
    LET l == EndlessListener[p][i]
    IN /\ Up(p)
       /\ AtClose(p, i, who)
       /\ IF l.stopped
          THEN CloseReturns(p, i, who, l, EINVAL)
          ELSE /\ EndlessListener' = [EndlessListener EXCEPT ![p][i].calls[who] =
                      IF Flagged(p, i) THEN "stop" ELSE "send"]
               /\ UNCHANGED <<sigPC, lasPC, log>>
       /\ UNCHANGED <<procVars, regVars>>
       /\ UNCHANGED <<isChild, tls, state, ppid, wg, sigChan, hamPC, conns,
                      SignalHooks, hist>>

\* src/unnamed/part_000: el.stopped = true; return el.Listener.Close()
CloseStop(p, i, who) ==
    LET l == EndlessListener[p][i]
        r == TCPClose([l EXCEPT !.stopped = TRUE])
    IN /\ Up(p)
       /\ l.calls[who] = "stop"
       /\ CloseReturns(p, i, who, r.l, r.err)
       /\ UNCHANGED <<procVars, regVars>>
       /\ UNCHANGED <<isChild, tls, state, ppid, wg, sigChan, hamPC, conns,
                      SignalHooks, hist>>

\* src/endless.go: el.stop <- nil, taken by the goroutine's <-el.stop
CloseSend(p, i, who) ==
    LET l == EndlessListener[p][i]
    IN /\ Up(p)
       /\ l.calls[who] = "send"
       /\ l.stopper.pc = "recv"
       /\ EndlessListener' = [EndlessListener EXCEPT ![p][i] =
              [l EXCEPT !.calls[who] = "recv", !.stopper.pc = "set"]]
       /\ UNCHANGED <<procVars, regVars>>
       /\ UNCHANGED <<isChild, tls, state, lasPC, ppid, wg, sigChan, sigPC, hamPC,
                      conns, SignalHooks, log, hist>>

\* the goroutine: el.stopped = true
StopperSet(p, i) ==
    LET l == EndlessListener[p][i]
    IN /\ Up(p)
       /\ l.stopper.pc = "set"
       /\ EndlessListener' = [EndlessListener EXCEPT ![p][i] =
              [l EXCEPT !.stopped = TRUE, !.stopper.pc = "close"]]
       /\ UNCHANGED <<procVars, regVars>>
       /\ UNCHANGED <<isChild, tls, state, lasPC, ppid, wg, sigChan, sigPC, hamPC,
                      conns, SignalHooks, log, hist>>

\* the goroutine: el.Listener.Close(), the value it will send
StopperClose(p, i) ==
    LET l == EndlessListener[p][i]
        r == TCPClose(l)
    IN /\ Up(p)
       /\ l.stopper.pc = "close"
       /\ EndlessListener' = [EndlessListener EXCEPT ![p][i] =
              [r.l EXCEPT !.stopper = [pc |-> "send", val |-> r.err]]]
       /\ UNCHANGED <<procVars, regVars>>
       /\ UNCHANGED <<isChild, tls, state, lasPC, ppid, wg, sigChan, sigPC, hamPC,
                      conns, SignalHooks, log, hist>>

\* return <-el.stop, receiving what the goroutine sends; the goroutine ends
CloseRecv(p, i, who) ==
    LET l == EndlessListener[p][i]
    IN /\ Up(p)
       /\ l.calls[who] = "recv"
       /\ l.stopper.pc = "send"
       /\ CloseReturns(p, i, who, [l EXCEPT !.stopper.pc = "done"], l.stopper.val)
       /\ UNCHANGED <<procVars, regVars>>
       /\ UNCHANGED <<isChild, tls, state, ppid, wg, sigChan, hamPC, conns,
                      SignalHooks, hist>>

\* return <-el.stop, receiving the nil another caller sends with
\* el.stop <- nil: the channel has no direction and no buffer
CloseRecvNil(p, i, who, from) ==
    LET l == EndlessListener[p][i]
    IN /\ Up(p)
       /\ from # who
       /\ l.calls[who] = "recv"
       /\ l.calls[from] = "send"
       /\ CloseReturns(p, i, who, [l EXCEPT !.calls[from] = "recv"], Nil)
       /\ UNCHANGED <<procVars, regVars>>
       /\ UNCHANGED <<isChild, tls, state, ppid, wg, sigChan, hamPC, conns,
                      SignalHooks, hist>>

\* one instance, serving, with the listener of either file
InitClose ==
    /\ procState = [p \in Procs |-> IF p = "parent" THEN "up" ELSE "none"]
    /\ environ = [p \in Procs |-> FreshEnv]
    /\ inherited = [p \in Procs |-> <<>>]
    /\ program = {<<"a", "b">>}
    /\ DefaultHammerTime = -1
    /\ logOn = FALSE
    /\ runningServersOrder = [p \in Procs |->
           IF p = "parent" THEN <<<<"a", "b">>>> ELSE <<>>]
    /\ socketPtrOffsetMap = [p \in Procs |->
           IF p = "parent" THEN MapSet(<<>>, <<"a", "b">>, 0) ELSE <<>>]
    /\ runningServersForked = [p \in Procs |-> FALSE]
    /\ runningServerReg = [p \in Procs |-> 0]
    /\ spawned = [p \in Procs |-> 0]
    /\ nsig = [p \in Procs |-> 0]
    /\ isChild = PerSrv(FALSE)
    /\ tls = PerSrv(FALSE)
    /\ state = [PerSrv(STATE_INIT) EXCEPT !["parent"][1] = STATE_RUNNING]
    /\ lasPC = [PerSrv("none") EXCEPT !["parent"][1] = "accepting"]
    /\ ppid = PerSrv([pid |-> Nil, cnt |-> 0])
    /\ \E l \in {newEndlessListener(<<"a", "b">>), newEndlessListenerStop(<<"a", "b">>)} :
           EndlessListener = [PerSrv(NoListener) EXCEPT !["parent"][1] = l]
    /\ wg = PerSrv([counter |-> 0, waiters |-> 0])
    /\ sigChan = PerSrv(<<>>)
    /\ sigPC = [PerSrv([phase |-> "off", sig |-> Nil, idx |-> 0])
                   EXCEPT !["parent"][1].phase = "recv"]
    /\ hamPC = PerSrv([delayed |-> "off", usr2 |-> "off"])
    /\ conns = PerSrv([c \in 1..MaxConns |-> "none"])
    /\ SignalHooks = PerSrv(NoHooks)
    /\ log = PerSrv(<<>>)
    /\ hist = PerSrv(NoHist)

CloseStep(p, i) ==
    \/ SigRecv(p, i)
    \/ Flagged(p, i) /\ ShutdownCheck(p, i)
    \/ ShutdownSet(p, i)
    \/ ServeReturns(p, i)
    \/ WaitEnter(p, i)
    \/ Flagged(p, i) /\ ServeSetTerminate(p, i)
    \/ StopperSet(p, i)
    \/ StopperClose(p, i)
    \/ \E who \in Callers :
          \/ CloseCheck(p, i, who)
          \/ CloseStop(p, i, who)
          \/ CloseSend(p, i, who)
          \/ CloseRecv(p, i, who)
          \/ \E from \in Callers : CloseRecvNil(p, i, who, from)

NextClose ==
    \/ CloseStep("parent", 1)
    \/ \E sig \in {"INT", "TERM"} : EnvSignal("parent", sig, MaxSignals)

SpecClose == InitClose /\ [][NextClose]_vars

\* the Close calls that returned something else than EINVAL
Effective(l) ==
    Len(SelectSeq(l.rets["signal"], LAMBDA e : e # EINVAL))
        + Len(SelectSeq(l.rets["serve"], LAMBDA e : e # EINVAL))

\* a caller waits at el.stop <- nil when the goroutine has ended and nobody
\* receives: it never returns
Blocked(l) ==
    \E who \in Callers :
        /\ l.calls[who] = "send"
        /\ l.stopper.pc = "done"
        /\ \A c \in Callers : l.calls[c] # "recv"

\* C23: the wrapped listener is closed at most once, at most one Close call
\* returns something else than the "invalid argument" error (the one that
\* closed), and no caller is left waiting inside Close with nobody to
\* release it, for calls one after the other and for overlapping calls of
\* the signal loop and the serving loop, with the listener of either file.
C23_CloseOnce ==
    LET l == EndlessListener["parent"][1]
    IN /\ l.closes <= 1
       /\ Effective(l) <= 1
       /\ ~Blocked(l)

====
